---- MODULE Spec2Model ----
(***************************************************************************)
(* Model of src/main.ts: the Indonesian holiday API.                       *)
(*                                                                         *)
(* scrapeLiburIndonesia (cache lookup, upstream fetch, HTML parse, title   *)
(* classification, cache write) and the three /api/libur routes, run by    *)
(* concurrently served requests that interleave at their await points      *)
(* (kv.get, fetch / res.text, kv.set).                                     *)
(*                                                                         *)
(* Strings are sequences of one-character strings, so that trim,           *)
(* toLowerCase, includes, startsWith, the /.../i tests and Number() are    *)
(* computed character by character.                                        *)
(***************************************************************************)
EXTENDS Integers, Sequences, FiniteSets, TLC

(***************************************************************************)
(* Bounds of the model.                                                    *)
(***************************************************************************)
\* Number of clock steps; one step is half the cache TTL.
MaxTicks == 2

(***************************************************************************)
(* Text literals.                                                          *)
(***************************************************************************)
UpperAlpha == <<"A","B","C","D","E","F","G","H","I","J","K","L","M","N","O","P","Q","R","S","T","U","V","W","X","Y","Z">>
LowerAlpha == <<"a","b","c","d","e","f","g","h","i","j","k","l","m","n","o","p","q","r","s","t","u","v","w","x","y","z">>
Digits == <<"0","1","2","3","4","5","6","7","8","9">>
Whitespace == {" ", "\n", "\t"}

\* Values of the :year path parameter.
S_neg5 == <<"-","5">>
S_abc == <<"a","b","c">>
S_1899 == <<"1","8","9","9">>
S_1900 == <<"1","9","0","0">>
YearParams == {S_neg5, S_abc, S_1899, S_1900}

\* Values of the :bulan and :tanggal path parameters.
S_Januari == <<"J","a","n","u","a","r","i">>
S_1sp == <<"1"," ">>
S_1j == <<"1"," ","j">>
S_januari == <<"j","a","n","u","a","r","i">>
BulanParams == {S_Januari, S_januari}
TanggalParams == {S_1sp, S_1j}

\* Text contents found on the upstream pages.
D_1Jan == <<" ","1"," ","J","a","n","u","a","r","i"," ">>
D_10Jan == <<"1","0"," ","J","a","n","u","a","r","i">>
D_17Agu == <<"1","7"," ","A","g","u","s","t","u","s","\n">>
D_21Jan == <<"2","1"," ","J","a","n","u","a","r","i">>
D_x == <<"x">>
T_TahunBaru == <<"T","a","h","u","n"," ","B","a","r","u"," ","M","a","s","e","h","i">>
T_Both == <<" ","C","u","t","i"," ","B","e","r","s","a","m","a"," ","L","i","b","u","r"," ","N","a","s","i","o","n","a","l","\n">>
T_Kartini == <<"H","a","r","i"," ","K","a","r","t","i","n","i">>
T_UpperNas == <<"L","I","B","U","R"," ","N","A","S","I","O","N","A","L"," ","K","e","m","e","r","d","e","k","a","a","n">>
T_Blank == <<" "," ">>
T_BothRev == <<"L","i","b","u","r"," ","N","a","s","i","o","n","a","l"," ","c","u","t","i"," ","B","E","R","S","A","M","A">>
T_Cuti == <<"C","u","t","i"," ","B","e","r","s","a","m","a"," ","I","d","u","l"," ","F","i","t","r","i">>
T_Nas == <<"L","i","b","u","r"," ","N","a","s","i","o","n","a","l"," ","T","a","h","u","n"," ","B","a","r","u">>

(***************************************************************************)
(* String functions of the JavaScript runtime, as the code uses them.      *)
(***************************************************************************)
\* String.prototype.toLowerCase, one character.
LowerOf == [u \in {UpperAlpha[i] : i \in 1..Len(UpperAlpha)} |->
               LowerAlpha[CHOOSE i \in 1..Len(UpperAlpha) : UpperAlpha[i] = u]]

LowerChar(c) == IF c \in DOMAIN LowerOf THEN LowerOf[c] ELSE c

\* String.prototype.toLowerCase.
toLowerCase(s) == [i \in 1..Len(s) |-> LowerChar(s[i])]

\* String.prototype.startsWith.
startsWith(s, p) ==
    /\ Len(p) <= Len(s)
    /\ \A i \in 1..Len(p) : s[i] = p[i]

\* String.prototype.includes.
includes(s, p) ==
    \E k \in 0..(Len(s) - Len(p)) : \A i \in 1..Len(p) : s[k + i] = p[i]

\* String.prototype.trim: drops the leading and the trailing white space.
RECURSIVE TrimStart(_)
TrimStart(s) ==
    IF s # <<>> /\ Head(s) \in Whitespace THEN TrimStart(Tail(s)) ELSE s

RECURSIVE TrimEnd(_)
TrimEnd(s) ==
    IF s # <<>> /\ s[Len(s)] \in Whitespace
    THEN TrimEnd(SubSeq(s, 1, Len(s) - 1))
    ELSE s

trim(s) == TrimEnd(TrimStart(s))

\* /pattern/i.test(s) for a pattern of literal characters: a case-insensitive
\* search for the pattern anywhere in s.
RegexTestI(pattern, s) ==
    \E k \in 0..(Len(s) - Len(pattern)) :
        \A i \in 1..Len(pattern) : LowerChar(s[k + i]) = LowerChar(pattern[i])

\* A JavaScript number: NaN, or an integer n.
NaN == [nan |-> TRUE, n |-> 0]
Num(v) == [nan |-> FALSE, n |-> v]

IsDigit(c) == \E i \in 1..Len(Digits) : Digits[i] = c
DigitVal(c) == (CHOOSE i \in 1..Len(Digits) : Digits[i] = c) - 1

RECURSIVE DigitsValue(_)
DigitsValue(s) ==
    IF s = <<>> THEN 0
    ELSE DigitsValue(SubSeq(s, 1, Len(s) - 1)) * 10 + DigitVal(s[Len(s)])

AllDigits(s) == s # <<>> /\ \A i \in 1..Len(s) : IsDigit(s[i])

\* Number(string) on the parameter shapes of the model: an optional sign
\* followed by decimal digits is that integer, the empty string is 0, any
\* other text is NaN.
Number(s) ==
    IF s = <<>> THEN Num(0)
    ELSE IF AllDigits(s) THEN Num(DigitsValue(s))
    ELSE IF Head(s) = "-" /\ AllDigits(Tail(s)) THEN Num(0 - DigitsValue(Tail(s)))
    ELSE IF Head(s) = "+" /\ AllDigits(Tail(s)) THEN Num(DigitsValue(Tail(s)))
    ELSE NaN

\* isNaN(x).
isNaN(x) == x.nan

\* x < k for a number x and an integer k: false when x is NaN.
LessThan(x, k) == ~x.nan /\ x.n < k

(***************************************************************************)
(* The upstream site: pages and fetch responses.                           *)
(***************************************************************************)
\* An element of a page: its class, and the text of its .date and .title
\* descendants when it has them.
Element(cls, hasDate, date, hasTitle, title) ==
    [cls |-> cls, hasDate |-> hasDate, date |-> date,
     hasTitle |-> hasTitle, title |-> title]

\* An HTML text, as DOMParser sees it: whether it makes a document of it, and
\* the document's elements in document order.
PageA == [doc |-> TRUE, els |-> <<
    Element("holiday", TRUE, D_1Jan, TRUE, T_TahunBaru),
    Element("libur", TRUE, D_10Jan, TRUE, T_Both),
    Element("other", TRUE, D_x, TRUE, T_Nas),
    Element("holiday", FALSE, <<>>, TRUE, T_Kartini),
    Element("libur", TRUE, D_17Agu, TRUE, T_UpperNas) >>]

PageB == [doc |-> TRUE, els |-> <<
    Element("holiday", TRUE, D_1Jan, TRUE, T_Blank),
    Element("libur", TRUE, D_10Jan, FALSE, <<>>),
    Element("holiday", TRUE, D_17Agu, TRUE, T_BothRev),
    Element("libur", TRUE, D_21Jan, TRUE, T_Cuti),
    Element("holiday", TRUE, D_1Jan, TRUE, T_Nas),
    Element("libur", TRUE, D_17Agu, TRUE, T_Kartini) >>]

PageEmpty == [doc |-> TRUE, els |-> << Element("other", TRUE, D_x, TRUE, T_Nas) >>]

PageBad == [doc |-> FALSE, els |-> <<>>]

\* The HTML texts the upstream serves, by name.
Htmls == {"A", "B", "empty", "bad"}

\* new DOMParser().parseFromString(html, "text/html")
parseFromString(html) ==
    CASE html = "A" -> PageA
      [] html = "B" -> PageB
      [] html = "empty" -> PageEmpty
      [] OTHER -> PageBad

\* What one fetch(url) can end with: a transport failure (the promise
\* rejects), a response that is not ok (its body an error page without
\* holiday entries), or an ok response with a body.
Upstream ==
    {[throws |-> TRUE, ok |-> FALSE, html |-> "bad"],
     [throws |-> FALSE, ok |-> FALSE, html |-> "empty"]}
    \cup {[throws |-> FALSE, ok |-> TRUE, html |-> h] : h \in Htmls}

(***************************************************************************)
(* scrapeLiburIndonesia: the parse and the classification.                 *)
(***************************************************************************)
\* Variant: the status check never fires.
ResNotOk_Never(res) == FALSE

\* if (!res.ok) throw
ResNotOk(res) == ~res.ok

\* if (!document) throw
DocumentMissing(document) == ~document.doc

IsHolidayElement(el) == el.cls \in {"holiday", "libur"}

\* document.querySelectorAll(".holiday, .libur")
querySelectorAll(document) == SelectSeq(document.els, IsHolidayElement)

\* Variant: an entry is skipped only when both sub-elements are missing.
SkipElement_BothMissing(el) == ~el.hasDate /\ ~el.hasTitle

\* if (!dateEl || !titleEl) return;
SkipElement(el) == ~el.hasDate \/ ~el.hasTitle

\* Variant: the two tests in the other order, so that the national-holiday
\* test has the last word.
Classify_NasionalLast(title) ==
    LET type0 == "hari_besar"
        type1 == IF RegexTestI(<<"c","u","t","i"," ","b","e","r","s","a","m","a">>, title)
                 THEN "cuti_bersama" ELSE type0
        type2 == IF RegexTestI(<<"l","i","b","u","r"," ","n","a","s","i","o","n","a","l">>, title)
                 THEN "libur_nasional" ELSE type1
    IN  type2

\* let type = "hari_besar"; then the two tests in sequence.
Classify(title) ==
    LET type0 == "hari_besar"
        type1 == IF RegexTestI(<<"l","i","b","u","r"," ","n","a","s","i","o","n","a","l">>, title)
                 THEN "libur_nasional" ELSE type0
        type2 == IF RegexTestI(<<"c","u","t","i"," ","b","e","r","s","a","m","a">>, title)
                 THEN "cuti_bersama" ELSE type1
    IN  type2

\* The record pushed for one element.
MakeRecord(el) ==
    LET rawDate == trim(el.date)
        title == trim(el.title)
    IN  [date |-> rawDate, title |-> title, type |-> Classify(title)]

\* holidayElements.forEach(...): results after visiting els in order.
RECURSIVE ForEachElement(_, _)
ForEachElement(els, results) ==
    IF els = <<>> THEN results
    ELSE IF SkipElement(Head(els)) THEN ForEachElement(Tail(els), results)
    ELSE ForEachElement(Tail(els), Append(results, MakeRecord(Head(els))))

ParseResults(document) == ForEachElement(querySelectorAll(document), <<>>)

\* The results array of each page the upstream serves.
Scraped == [html \in Htmls |-> ParseResults(parseFromString(html))]

(***************************************************************************)
(* The cache (Deno KV, keys ["libur", year]).                              *)
(***************************************************************************)
CACHE_TTL == 60 * 60 * 24

\* The clock advances by half the expiry time of an entry, in milliseconds.
TickMs == (CACHE_TTL * 1000) \div 2

\* The numbers a request can use as the cache key.
Keys == {Number(p) : p \in YearParams}

\* The requests served: two, which may overlap.
Reqs == {1, 2}

NoEntry == [present |-> FALSE, value |-> <<>>, expireAt |-> 0]

Null == [found |-> FALSE, value |-> <<>>]

VARIABLES
    kv,       \* the store: key -> entry (value and expiry time)
    now,      \* the clock, in milliseconds
    req,      \* the requests: position, parameters, locals, response, and what each did
    wcount    \* number of cache writes so far

vars == <<kv, now, req, wcount>>

\* Variant: the lookup never finds an entry.
getCachedLibur_AlwaysMiss(year) == Null

\* Variant: the lookup returns an entry whatever its age.
getCachedLibur_IgnoreExpiry(year) ==
    IF kv[year].present
    THEN [found |-> TRUE, value |-> kv[year].value]
    ELSE Null

\* kv.get(["libur", year]) and cached.value: an entry is visible until it expires.
getCachedLibur(year) ==
    IF kv[year].present /\ now < kv[year].expireAt
    THEN [found |-> TRUE, value |-> kv[year].value]
    ELSE Null

\* Variant: an empty cached sequence counts as no entry.
Truthy_NonEmpty(cached) == cached.found /\ cached.value # <<>>

\* if (cached): null is falsy, an array is truthy whatever its length.
Truthy(cached) == cached.found

\* Variant: a write over an entry replaces the value and keeps the old expiry.
setCachedLibur_KeepExpiry(year, data) ==
    [kv EXCEPT ![year] = [present |-> TRUE, value |-> data,
                          expireAt |-> IF kv[year].present THEN kv[year].expireAt
                                       ELSE now + CACHE_TTL * 1000]]

\* Variant: a write over an entry appends the new records to the old ones.
setCachedLibur_Append(year, data) ==
    [kv EXCEPT ![year] = [present |-> TRUE,
                          value |-> IF kv[year].present THEN kv[year].value \o data
                                    ELSE data,
                          expireAt |-> now + CACHE_TTL * 1000]]

\* Variant: a write does not replace an entry that is there.
setCachedLibur_KeepFirst(year, data) ==
    IF kv[year].present THEN kv
    ELSE [kv EXCEPT ![year] = [present |-> TRUE, value |-> data,
                               expireAt |-> now + CACHE_TTL * 1000]]

\* kv.set(["libur", year], data, { expireIn: CACHE_TTL * 1000 })
setCachedLibur(year, data) ==
    [kv EXCEPT ![year] = [present |-> TRUE, value |-> data,
                          expireAt |-> now + CACHE_TTL * 1000]]

(***************************************************************************)
(* Responses of the route layer.                                           *)
(***************************************************************************)
Response(status, fields, error, message, text, data) ==
    [status |-> status, fields |-> fields, error |-> error, message |-> message,
     text |-> text, total |-> Len(data), data |-> data]

NoResponse == Response(0, {}, "", "", "", <<>>)

\* c.json({ error: 'Tahun tidak valid' }, 400)
InvalidYearResponse == Response(400, {"error"}, "Tahun tidak valid", "", "", <<>>)

\* The catch clause: c.json({ error, message }, 500).
CatchResponse(message) ==
    Response(500, {"error", "message"}, "Gagal mengambil data libur", message, "", <<>>)

\* An error no handler catches: the framework answers 500 with a fixed text.
UnhandledResponse == Response(500, {}, "", "", "Internal Server Error", <<>>)

\* The responses a failed scrape can end a request of a route with.  The
\* catch clause stands after the routes without its try: a by-year request
\* either is answered by it or is not caught; the two filter routes have no
\* try at all.
ErrorResponses(route, message) ==
    IF route = "year" THEN {CatchResponse(message), UnhandledResponse}
    ELSE {UnhandledResponse}

\* Variant: the comparison is off by one.
InvalidYear_From1901(year) == isNaN(year) \/ LessThan(year, 1901)

\* isNaN(year) || year < 1900
InvalidYear(year) == isNaN(year) \/ LessThan(year, 1900)

\* Variant: the date is searched as it is written.
FilterBulan_CaseSensitive(data, bulan) ==
    LET Keep(d) == includes(d.date, bulan)
    IN  SelectSeq(data, Keep)

\* data.filter(d => d.date.toLowerCase().includes(bulan))
FilterBulan(data, bulan) ==
    LET Keep(d) == includes(toLowerCase(d.date), bulan)
    IN  SelectSeq(data, Keep)

\* Variant: the prefix is compared without regard to letter case.
FilterTanggal_IgnoreCase(data, tanggal) ==
    LET Keep(d) == startsWith(toLowerCase(d.date), toLowerCase(tanggal))
    IN  SelectSeq(data, Keep)

\* data.filter(d => d.date.startsWith(tanggal))
FilterTanggal(data, tanggal) ==
    LET Keep(d) == startsWith(d.date, tanggal)
    IN  SelectSeq(data, Keep)

\* The c.json(...) a route returns once scrapeLiburIndonesia has returned data.
SuccessResponse(route, token, data) ==
    IF route = "year" THEN Response(200, {"year", "total", "data"}, "", "", "", data)
    ELSE IF route = "bulan"
    THEN Response(200, {"year", "bulan", "total", "data"}, "", "", "",
                  FilterBulan(data, token))
    ELSE Response(200, {"year", "tanggal", "total", "data"}, "", "", "",
                  FilterTanggal(data, token))

(***************************************************************************)
(* Requests.                                                               *)
(***************************************************************************)
\* A request before it arrives.  pc: idle, fetch (awaits fetch and res.text),
\* set (awaits kv.set), done.  ok (res.ok), html and data are the locals of
\* scrapeLiburIndonesia.  reads, fetches, parses and writes count what the
\* request did; hit, sawWriter and sawFresh record its cache lookup (the
\* request whose write was the latest for the key, and whether that write
\* was less than the expiry time old); wseq and wroteAt are the rank and the
\* time of its cache write.
IdleRequest ==
    [pc |-> "idle", route |-> "", param |-> <<>>, token |-> <<>>, year |-> NaN,
     ok |-> FALSE, html |-> "", data |-> <<>>, err |-> "", resp |-> NoResponse,
     reads |-> 0, fetches |-> 0, parses |-> 0, writes |-> 0,
     hit |-> FALSE, sawWriter |-> 0, sawFresh |-> FALSE, wseq |-> 0, wroteAt |-> 0]

Init ==
    /\ kv = [k \in Keys |-> NoEntry]
    /\ now = 0
    /\ req = [r \in Reqs |-> IdleRequest]
    /\ wcount = 0

\* The requests that have written the entry of a key.
Writers(year) == {w \in Reqs : req[w].wseq > 0 /\ req[w].year = year}

\* The request whose write of the key is the latest so far, 0 when there is none.
LastWriter(year) ==
    IF Writers(year) = {} THEN 0
    ELSE CHOOSE w \in Writers(year) : \A v \in Writers(year) : req[v].wseq <= req[w].wseq

\* scrapeLiburIndonesia(year), from the call to the first await after
\* kv.get: return the cached value (and the route answers), or go on to fetch.
ScrapeGetCached(route, param, token) ==
    LET year == Number(param)
        cached == getCachedLibur(year)
        last == LastWriter(year)
        q == [IdleRequest EXCEPT
                !.route = route, !.param = param, !.token = token, !.year = year,
                !.reads = 1, !.hit = Truthy(cached), !.sawWriter = last,
                !.sawFresh = (last # 0 /\ now - req[last].wroteAt < CACHE_TTL * 1000)]
    IN  IF Truthy(cached)
        THEN [q EXCEPT !.pc = "done", !.data = cached.value,
                       !.resp = SuccessResponse(route, token, cached.value)]
        ELSE [q EXCEPT !.pc = "fetch"]

\* GET /api/libur/:year
RouteYear(r) ==
    /\ req[r].pc = "idle"
    /\ \E param \in YearParams :
          LET year == Number(param) IN
          IF InvalidYear(year)
          THEN req' = [req EXCEPT ![r] = [IdleRequest EXCEPT
                          !.pc = "done", !.route = "year", !.param = param,
                          !.year = year, !.resp = InvalidYearResponse]]
          ELSE req' = [req EXCEPT ![r] = ScrapeGetCached("year", param, <<>>)]
    /\ UNCHANGED <<kv, now, wcount>>

\* GET /api/libur/:year/bulan/:bulan
RouteBulan(r) ==
    /\ req[r].pc = "idle"
    /\ \E param \in YearParams, bulan \in BulanParams :
          req' = [req EXCEPT ![r] = ScrapeGetCached("bulan", param, toLowerCase(bulan))]
    /\ UNCHANGED <<kv, now, wcount>>

\* GET /api/libur/:year/tanggal/:tanggal
RouteTanggal(r) ==
    /\ req[r].pc = "idle"
    /\ \E param \in YearParams, tanggal \in TanggalParams :
          req' = [req EXCEPT ![r] = ScrapeGetCached("tanggal", param, tanggal)]
    /\ UNCHANGED <<kv, now, wcount>>

\* Variant: a failure is swallowed and the request is left without an answer.
Throw_NoResponse(q, message, resp) ==
    [q EXCEPT !.pc = "pending", !.err = message]

\* Variant: a first failure sends the call back to fetch once more.
Throw_RetryOnce(q, message, resp) ==
    IF q.fetches < 2 THEN [q EXCEPT !.pc = "fetch"]
    ELSE [q EXCEPT !.pc = "done", !.err = message, !.resp = resp]

\* scrapeLiburIndonesia threw: the error reaches the route handler and ends
\* the request.
Throw(q, message, resp) ==
    [q EXCEPT !.pc = "done", !.err = message, !.resp = resp]

\* scrapeLiburIndonesia, from the resumption after fetch to the await of
\* kv.set: the status check, the parse and the forEach.
ScrapeFetch(r) ==
    /\ req[r].pc = "fetch"
    /\ \E res \in Upstream :
          LET q == [req[r] EXCEPT !.fetches = @ + 1, !.ok = res.ok] IN
          IF res.throws
          THEN \E resp \in ErrorResponses(q.route, "fetch failed") :
                  req' = [req EXCEPT ![r] = Throw(q, "fetch failed", resp)]
          ELSE IF ResNotOk(res)
          THEN \E resp \in ErrorResponses(q.route, "Gagal mengambil data dari tanggalan.com") :
                  req' = [req EXCEPT ![r] =
                             Throw(q, "Gagal mengambil data dari tanggalan.com", resp)]
          ELSE LET document == parseFromString(res.html)
                   p == [q EXCEPT !.html = res.html, !.parses = @ + 1]
               IN  IF DocumentMissing(document)
                   THEN \E resp \in ErrorResponses(q.route, "Gagal parsing HTML") :
                           req' = [req EXCEPT ![r] = Throw(p, "Gagal parsing HTML", resp)]
                   ELSE req' = [req EXCEPT ![r] = [p EXCEPT
                                   !.pc = "set", !.data = Scraped[res.html]]]
    /\ UNCHANGED <<kv, now, wcount>>

\* Variant: the route's filtered list is what gets stored.
ScrapeSetCached_Filtered(r) ==
    /\ req[r].pc = "set"
    /\ kv' = setCachedLibur(req[r].year,
                 SuccessResponse(req[r].route, req[r].token, req[r].data).data)
    /\ wcount' = wcount + 1
    /\ req' = [req EXCEPT ![r] = [@ EXCEPT
                  !.pc = "done", !.writes = @ + 1,
                  !.wseq = wcount + 1, !.wroteAt = now,
                  !.resp = SuccessResponse(req[r].route, req[r].token, req[r].data)]]
    /\ UNCHANGED now

\* scrapeLiburIndonesia, the kv.set and the return; the route answers.
ScrapeSetCached(r) ==
    /\ req[r].pc = "set"
    /\ kv' = setCachedLibur(req[r].year, req[r].data)
    /\ wcount' = wcount + 1
    /\ req' = [req EXCEPT ![r] = [@ EXCEPT
                  !.pc = "done", !.writes = @ + 1,
                  !.wseq = wcount + 1, !.wroteAt = now,
                  !.resp = SuccessResponse(req[r].route, req[r].token, req[r].data)]]
    /\ UNCHANGED now

\* Time passes.
Tick ==
    /\ now < MaxTicks * TickMs
    /\ now' = now + TickMs
    /\ UNCHANGED <<kv, req, wcount>>

Next ==
    \/ \E r \in Reqs : RouteBulan(r)
    \/ \E r \in Reqs : RouteTanggal(r)
    \/ \E r \in Reqs : RouteYear(r)
    \/ \E r \in Reqs : ScrapeFetch(r)
    \/ \E r \in Reqs : ScrapeSetCached(r)
    \/ Tick

Spec == Init /\ [][Next]_vars

(***************************************************************************)
(* Properties.                                                             *)
(***************************************************************************)
Done(r) == req[r].pc = "done"
Failed(r) == req[r].err # ""
ExpireIn == CACHE_TTL * 1000

\* P holds of every record a request holds, a response carries or the cache
\* stores; P holds of one of them.
EveryRecord(P(_)) ==
    /\ \A r \in Reqs : \A i \in 1..Len(req[r].data) : P(req[r].data[i])
    /\ \A r \in Reqs : \A i \in 1..Len(req[r].resp.data) : P(req[r].resp.data[i])
    /\ \A k \in Keys : \A i \in 1..Len(kv[k].value) : P(kv[k].value[i])

SomeRecord(P(_)) ==
    \/ \E r \in Reqs : \E i \in 1..Len(req[r].data) : P(req[r].data[i])
    \/ \E r \in Reqs : \E i \in 1..Len(req[r].resp.data) : P(req[r].resp.data[i])
    \/ \E k \in Keys : \E i \in 1..Len(kv[k].value) : P(kv[k].value[i])

\* A cache entry is the parse of a page that one request for that year
\* fetched with an ok response and parsed into a document.
EntryFromFullSuccess(k) ==
    \E w \in Reqs :
        /\ req[w].year = k
        /\ req[w].fetches = 1 /\ req[w].ok
        /\ req[w].parses = 1 /\ parseFromString(req[w].html).doc
        /\ ~Failed(w) /\ req[w].writes = 1
        /\ kv[k].value = req[w].data
        /\ kv[k].value = ForEachElement(
               SelectSeq(parseFromString(req[w].html).els, IsHolidayElement), <<>>)

\* C1: in every reachable state each cache entry is absent or the complete
\* record sequence of one successful fetch and parse for its year; a call
\* whose fetch or parse fails writes nothing, ends with the error propagated,
\* and its failing step leaves the cache unchanged.
C1_WriteAfterFullSuccess ==
    /\ [](\A k \in Keys : kv[k].present => EntryFromFullSuccess(k))
    /\ [](\A r \in Reqs : Failed(r) =>
              /\ Done(r) /\ req[r].writes = 0 /\ req[r].resp.status = 500
              /\ \A k \in Keys : kv[k].present => \E w \in Reqs \ {r} : req[w].wseq > 0)
    /\ [][\A r \in Reqs : (~Failed(r) /\ Failed(r)') => kv' = kv]_vars

\* A request failed at its parse or at a non-ok response while the cache
\* holds an entry of the same year written by the other request.
C1_Witness ==
    \E r, w \in Reqs :
        /\ req[r].err \in {"Gagal parsing HTML", "Gagal mengambil data dari tanggalan.com"}
        /\ req[w].writes = 1 /\ req[w].year = req[r].year
        /\ kv[req[r].year].present /\ kv[req[r].year].value # <<>>

\* C2: a provider call that reads the cache after a successful call for the
\* same year, before that call's entry is one TTL old, is a hit: it returns
\* the first call's records and makes no fetch and no parse, so the fetch
\* count stays at the first call's one.
C2_HitWithinTtl ==
    \A r2 \in Reqs :
        LET r1 == req[r2].sawWriter IN
        (req[r2].reads = 1 /\ r1 # 0 /\ req[r2].sawFresh) =>
            /\ req[r2].hit /\ Done(r2) /\ ~Failed(r2)
            /\ req[r2].fetches = 0 /\ req[r2].parses = 0 /\ req[r2].writes = 0
            /\ req[r2].data = req[r1].data
            /\ req[r2].resp.status = 200
            /\ req[r1].fetches = 1

C2_Witness ==
    \E r2 \in Reqs :
        /\ req[r2].route = "year" /\ req[r2].year = Num(1900)
        /\ req[r2].sawWriter # 0 /\ req[r2].sawFresh /\ req[r2].hit
        /\ req[r2].data # <<>> /\ req[r2].resp.data = req[req[r2].sawWriter].data
        /\ now > req[req[r2].sawWriter].wroteAt

\* The year of a request is not a number, or is a number below 1900.
YearNotValid(r) == req[r].year.nan \/ req[r].year.n < 1900

\* C3: on each of the three routes a request whose year is not valid is
\* rejected with the invalid-year response before the provider is invoked:
\* no cache read, no fetch, no cache write.
C3_InvalidYearRejectedOnEveryRoute ==
    \A r \in Reqs :
        (req[r].pc # "idle" /\ YearNotValid(r)) =>
            /\ req[r].reads = 0 /\ req[r].fetches = 0 /\ req[r].writes = 0
            /\ Done(r) /\ req[r].resp = InvalidYearResponse

\* C4: on the by-year route -5, 1899 and a non-numeric year end with the 400
\* invalid-year response without any cache read or fetch, 1900 reaches the
\* provider, and a year is rejected exactly when it is not a number or is
\* below 1900.
C4_YearBoundary ==
    \A r \in Reqs :
        req[r].route = "year" =>
            /\ req[r].param \in {S_neg5, S_abc, S_1899} =>
                  /\ Done(r) /\ req[r].resp.status = 400
                  /\ req[r].resp.error = "Tahun tidak valid"
                  /\ req[r].reads = 0 /\ req[r].fetches = 0 /\ req[r].writes = 0
            /\ req[r].param = S_1900 =>
                  /\ req[r].reads = 1 /\ req[r].resp.status # 400
            /\ (req[r].resp.status = 400) <=> YearNotValid(r)

C4_Witness ==
    \E r1, r2 \in Reqs :
        /\ req[r1].route = "year" /\ req[r1].param = S_1899 /\ req[r1].resp.status = 400
        /\ req[r2].route = "year" /\ req[r2].param = S_1900 /\ req[r2].fetches = 1
        /\ req[r2].resp.status = 200

\* C5: two requests for the same year that both missed the cache and both
\* finished without error each made their own fetch, parse and write and
\* both got a success response; the cache then holds the records written by
\* whichever call for that year wrote last.
C5_ConcurrentMisses ==
    \A r1, r2 \in Reqs :
        (/\ r1 # r2 /\ req[r1].year = req[r2].year
         /\ Done(r1) /\ Done(r2)
         /\ req[r1].reads = 1 /\ req[r2].reads = 1
         /\ ~req[r1].hit /\ ~req[r2].hit
         /\ ~Failed(r1) /\ ~Failed(r2)) =>
            /\ \A r \in {r1, r2} :
                  /\ req[r].fetches = 1 /\ req[r].parses = 1 /\ req[r].writes = 1
                  /\ req[r].resp.status = 200
            /\ kv[req[r1].year].present
            /\ LastWriter(req[r1].year) # 0
            /\ Writers(req[r1].year) = {r1, r2} => LastWriter(req[r1].year) \in {r1, r2}
            /\ kv[req[r1].year].value = req[LastWriter(req[r1].year)].data

\* Both requests missed before either wrote; they parsed different pages and
\* the cache holds the later writer's records.
C5_Witness ==
    \E r1, r2 \in Reqs :
        /\ r1 # r2 /\ req[r1].year = req[r2].year
        /\ Done(r1) /\ Done(r2)
        /\ req[r1].reads = 1 /\ req[r2].reads = 1
        /\ req[r1].sawWriter = 0 /\ req[r2].sawWriter = 0
        /\ req[r1].writes = 1 /\ req[r2].writes = 1
        /\ req[r1].wseq < req[r2].wseq
        /\ req[r1].data # req[r2].data
        /\ kv[req[r1].year].value = req[r2].data

\* C6: a provider call that reads the cache when the latest write for its
\* year is at least one TTL old observes a miss, makes exactly one fetch
\* and, when that fetch and the parse succeed, writes the entry anew with a
\* fresh expiry.
C6_MissAfterTtl ==
    \A r \in Reqs :
        (req[r].reads = 1 /\ req[r].sawWriter # 0 /\ ~req[r].sawFresh) =>
            /\ ~req[r].hit
            /\ req[r].fetches = (IF req[r].pc = "fetch" THEN 0 ELSE 1)
            /\ (Done(r) /\ ~Failed(r)) =>
                  /\ req[r].writes = 1
                  /\ req[r].wseq > req[req[r].sawWriter].wseq
            /\ LastWriter(req[r].year) = r =>
                  /\ kv[req[r].year].present
                  /\ kv[req[r].year].value = req[r].data
                  /\ kv[req[r].year].expireAt = req[r].wroteAt + ExpireIn

C6_Witness ==
    \E r \in Reqs :
        /\ req[r].sawWriter # 0 /\ ~req[r].sawFresh
        /\ Done(r) /\ req[r].fetches = 1 /\ req[r].writes = 1
        /\ req[r].data # req[req[r].sawWriter].data
        /\ kv[req[r].year].value = req[r].data

\* C7: a fetch or parse failure ends its request, without a retry, with a
\* 500 response that carries an error field and the failure's message, and
\* nothing is written to the cache.
C7_FailureIs500WithMessage ==
    \A r \in Reqs :
        Failed(r) =>
            /\ Done(r) /\ req[r].fetches = 1 /\ req[r].writes = 0
            /\ req[r].resp.status = 500
            /\ {"error", "message"} \subseteq req[r].resp.fields
            /\ req[r].resp.message = req[r].err

\* C8: every record held by a request, a response or the cache has a
\* non-empty title.
C8_TitleNonEmpty ==
    LET TitleNonEmpty(rec) == rec.title # <<>>
    IN  EveryRecord(TitleNonEmpty)

\* The marker phrases, and a title holding one in any letter case.
MarkerNasional == <<"l","i","b","u","r"," ","n","a","s","i","o","n","a","l">>
MarkerCuti == <<"c","u","t","i"," ","b","e","r","s","a","m","a">>
HasMarker(title, marker) == includes(toLowerCase(title), marker)

\* C9: every record's type is the one category its title calls for:
\* cuti_bersama when the title holds the joint-leave marker (also when it
\* holds both), libur_nasional when it holds only the national-holiday
\* marker, hari_besar when it holds neither.
C9_Classifier ==
    LET Classified(rec) ==
            LET cuti == HasMarker(rec.title, MarkerCuti)
                nasional == HasMarker(rec.title, MarkerNasional)
            IN  /\ rec.type \in {"libur_nasional", "cuti_bersama", "hari_besar"}
                /\ cuti => rec.type = "cuti_bersama"
                /\ (nasional /\ ~cuti) => rec.type = "libur_nasional"
                /\ (~nasional /\ ~cuti) => rec.type = "hari_besar"
    IN  EveryRecord(Classified)

\* Records of all three categories have been produced, among them titles with
\* both markers in either order and a marker in upper case.
C9_Witness ==
    LET Both(rec) == rec.title = trim(T_Both) /\ rec.type = "cuti_bersama"
        BothRev(rec) == rec.title = T_BothRev /\ rec.type = "cuti_bersama"
        UpperNas(rec) == rec.title = T_UpperNas /\ rec.type = "libur_nasional"
        Plain(rec) == rec.title = T_Kartini /\ rec.type = "hari_besar"
    IN  SomeRecord(Both) /\ SomeRecord(BothRev) /\ SomeRecord(UpperNas) /\ SomeRecord(Plain)

\* C10: a holiday titled "Tahun Baru Masehi" has type libur_nasional.
C10_TahunBaruIsLiburNasional ==
    LET AsDocumented(rec) == rec.title = T_TahunBaru => rec.type = "libur_nasional"
    IN  EveryRecord(AsDocumented)


\* p is the beginning of s, character for character.
IsPrefixOf(p, s) == Len(p) <= Len(s) /\ SubSeq(s, 1, Len(p)) = p

\* p occurs in s, character for character.
OccursIn(p, s) == \E i \in 1..(Len(s) - Len(p) + 1) : SubSeq(s, i, i + Len(p) - 1) = p

\* out holds exactly the elements of data at the positions in keep, in the
\* order of data.
IsSelection(out, data, keep) ==
    /\ Len(out) = Cardinality(keep)
    /\ \A j \in 1..Len(out) :
          out[j] = data[CHOOSE i \in keep : Cardinality({k \in keep : k <= i}) = j]

\* C11: a date-prefix query that succeeds returns exactly the records of the
\* provider's sequence whose date begins with the token, compared character
\* for character, in the provider's order, and total counts them; the prefix
\* "1 " keeps "1 Januari" and neither "10 Januari" nor "21 Januari".
C11_DatePrefixFilter ==
    \A r \in Reqs :
        (req[r].route = "tanggal" /\ Done(r) /\ ~Failed(r)) =>
            LET data == req[r].data
                keep == {i \in 1..Len(data) : IsPrefixOf(req[r].token, data[i].date)}
            IN  /\ req[r].token \in TanggalParams
                /\ req[r].resp.status = 200
                /\ IsSelection(req[r].resp.data, data, keep)
                /\ req[r].resp.total = Cardinality(keep)

\* A date-prefix query on "1 " over a sequence with "1 Januari" and
\* "10 Januari" returned one record, dated "1 Januari"; another on "1 j"
\* over the same dates returned none.
C11_Witness ==
    /\ \E r \in Reqs :
          /\ req[r].route = "tanggal" /\ req[r].token = S_1sp /\ Done(r)
          /\ \E i, j \in 1..Len(req[r].data) :
                /\ req[r].data[i].date = trim(D_1Jan)
                /\ req[r].data[j].date = D_10Jan
          /\ req[r].resp.total = 1
          /\ req[r].resp.data[1].date = trim(D_1Jan)
    /\ \E r \in Reqs :
          /\ req[r].route = "tanggal" /\ req[r].token = S_1j /\ Done(r)
          /\ Len(req[r].data) = 3
          /\ req[r].resp.total = 0 /\ req[r].resp.status = 200


\* C12: a month query that succeeds returns exactly the records of the
\* provider's sequence whose date contains the month token when both are
\* lower-cased, in the provider's order, and total counts them; the token
\* "januari" keeps "1 Januari" and drops "17 Agustus".
C12_MonthFilter ==
    \A r \in Reqs :
        (req[r].route = "bulan" /\ Done(r) /\ ~Failed(r)) =>
            \E bulan \in BulanParams :
                LET data == req[r].data
                    keep == {i \in 1..Len(data) :
                                OccursIn(toLowerCase(bulan), toLowerCase(data[i].date))}
                IN  /\ req[r].token = toLowerCase(bulan)
                    /\ req[r].resp.status = 200
                    /\ IsSelection(req[r].resp.data, data, keep)
                    /\ req[r].resp.total = Cardinality(keep)

\* A month query on "januari" over a sequence with "1 Januari" first and
\* "17 Agustus" last returned the January records and not the August one.
C12_Witness ==
    \E r \in Reqs :
        /\ req[r].route = "bulan" /\ req[r].token = S_januari /\ Done(r)
        /\ Len(req[r].data) = 3
        /\ req[r].data[1].date = trim(D_1Jan)
        /\ req[r].data[3].date = trim(D_17Agu)
        /\ req[r].resp.total = 2
        /\ req[r].resp.data[1] = req[r].data[1]
        /\ \A i \in 1..Len(req[r].resp.data) : req[r].resp.data[i].date # trim(D_17Agu)


\* C13: a provider call makes no fetch when its cache lookup hits and exactly
\* one when it misses (none yet while that one is awaited); a call whose
\* fetch failed has ended with its single attempt, and a request rejected
\* before the provider makes none.
C13_AtMostOneFetch ==
    \A r \in Reqs :
        /\ req[r].fetches =
              (IF req[r].reads = 1 /\ ~req[r].hit /\ req[r].pc # "fetch" THEN 1 ELSE 0)
        /\ req[r].pc = "fetch" => (req[r].reads = 1 /\ ~req[r].hit /\ ~Failed(r))
        /\ Failed(r) => (Done(r) /\ req[r].fetches = 1)

\* One call's only fetch failed and the call has ended; the other call, for
\* the same year, missed as well and made its own single fetch.
C13_Witness ==
    \E r1, r2 \in Reqs :
        /\ req[r1].err \in {"fetch failed", "Gagal mengambil data dari tanggalan.com"}
        /\ Done(r1) /\ req[r1].fetches = 1
        /\ req[r2].year = req[r1].year
        /\ Done(r2) /\ ~req[r2].hit /\ req[r2].fetches = 1 /\ req[r2].writes = 1


\* s without its leading and trailing white space.
Trimmed(s) ==
    LET solid == {i \in 1..Len(s) : s[i] \notin Whitespace}
    IN  IF solid = {} THEN <<>>
        ELSE SubSeq(s, CHOOSE i \in solid : \A j \in solid : i <= j,
                       CHOOSE i \in solid : \A j \in solid : j <= i)

\* The requests that parsed a page into records.
Parsed(r) == req[r].parses = 1 /\ ~Failed(r)

\* The positions of the matched entries of a page, and of those among them
\* that have both sub-elements.
MatchedEntries(html) ==
    LET els == parseFromString(html).els
    IN  {i \in 1..Len(els) : els[i].cls \in {"holiday", "libur"}}

QualifyingEntries(html) ==
    LET els == parseFromString(html).els
    IN  {i \in MatchedEntries(html) : els[i].hasDate /\ els[i].hasTitle}

\* For each page: one record per qualifying entry, in the order of the page.
QualifyingRecords ==
    [html \in Htmls |->
        LET els == parseFromString(html).els
            keep == QualifyingEntries(html)
            nth(j) == CHOOSE i \in keep : Cardinality({k \in keep : k <= i}) = j
        IN  [j \in 1..Cardinality(keep) |->
                [date |-> Trimmed(els[nth(j)].date),
                 title |-> Trimmed(els[nth(j)].title),
                 type |-> Classify(Trimmed(els[nth(j)].title))]]]

\* C14: the records a call parsed are, in document order, one record per
\* matched entry (class holiday or libur) that has both a date and a title
\* sub-element, made of the trimmed date, the trimmed title and the title's
\* classification; nothing is re-sorted, duplicated or merged, so there are
\* never more records than matched entries.
C14_ParserOutput ==
    \A r \in Reqs :
        Parsed(r) =>
            /\ req[r].data = QualifyingRecords[req[r].html]
            /\ Len(req[r].data) <= Cardinality(MatchedEntries(req[r].html))

\* A call parsed a page of five elements, four of them matched and one of
\* those without a date: three records, in the order of the page.
C14_Witness ==
    \E r \in Reqs :
        /\ Parsed(r) /\ req[r].html = "A"
        /\ Len(req[r].data) = 3
        /\ req[r].data[1].title = T_TahunBaru /\ req[r].data[1].date = trim(D_1Jan)
        /\ req[r].data[2].date = D_10Jan
        /\ req[r].data[3].title = T_UpperNas


\* C15: a page without matching entries parses to the empty sequence without
\* error and the call writes that to the cache and succeeds; a later call
\* for the year that reads the entry within the TTL is a hit that returns the
\* empty sequence without a fetch.
C15_EmptyPageIsCached ==
    /\ \A r \in Reqs :
          (req[r].parses = 1 /\ req[r].ok /\ req[r].html = "empty") =>
              /\ ~Failed(r) /\ req[r].data = <<>>
              /\ Done(r) => (req[r].writes = 1 /\ req[r].resp.status = 200
                                /\ req[r].resp.total = 0)
              /\ LastWriter(req[r].year) = r =>
                    (kv[req[r].year].present /\ kv[req[r].year].value = <<>>)
    /\ \A r2 \in Reqs :
          LET r1 == req[r2].sawWriter IN
          (req[r2].reads = 1 /\ r1 # 0 /\ req[r2].sawFresh /\ req[r1].data = <<>>) =>
              /\ req[r2].hit /\ Done(r2) /\ ~Failed(r2)
              /\ req[r2].fetches = 0 /\ req[r2].parses = 0
              /\ req[r2].data = <<>>
              /\ req[r2].resp.status = 200 /\ req[r2].resp.total = 0

\* The first call cached the empty parse of a page without holiday entries;
\* the second call, later but within the TTL, hit it.
C15_Witness ==
    \E r1, r2 \in Reqs :
        /\ req[r1].html = "empty" /\ req[r1].writes = 1
        /\ req[r2].sawWriter = r1 /\ req[r2].sawFresh /\ req[r2].hit
        /\ req[r2].fetches = 0 /\ req[r2].resp.status = 200 /\ req[r2].resp.data = <<>>
        /\ now > req[r1].wroteAt


\* Twenty-four hours, in milliseconds.
Day == 24 * 60 * 60 * 1000

\* C16: an entry expires 24 hours after the latest write for its year; an
\* entry changes only by a provider call's write for that year, which
\* replaces value and expiry whatever was there, so a cache hit or any
\* other step leaves the expiry as it is.
C16_ExpiryFixedAtWrite ==
    /\ [](\A k \in Keys :
             IF LastWriter(k) = 0 THEN ~kv[k].present
             ELSE /\ kv[k].present
                  /\ kv[k].expireAt = req[LastWriter(k)].wroteAt + Day
                  /\ kv[k].value = req[LastWriter(k)].data)
    /\ [][\A k \in Keys :
             kv'[k] # kv[k] =>
                \E r \in Reqs :
                    /\ req[r].pc = "set" /\ req'[r].pc = "done" /\ req[r].year = k
                    /\ kv'[k] = [present |-> TRUE, value |-> req[r].data,
                                 expireAt |-> now + Day]]_vars
    /\ [][(\E r \in Reqs : req'[r].hit /\ ~req[r].hit) => kv' = kv]_vars

\* An entry was read by a hit after time had passed since its write, and its
\* expiry is still 24 hours after the write.
C16_Witness ==
    \E r1, r2 \in Reqs :
        /\ req[r1].writes = 1 /\ req[r2].hit /\ req[r2].sawWriter = r1
        /\ now > req[r1].wroteAt
        /\ kv[req[r1].year].expireAt = req[r1].wroteAt + Day
        /\ kv[req[r1].year].expireAt < now + Day


\* Every page the provider calls for year k have parsed so far is page h.
PageUnchanged(k, h) ==
    \A r \in Reqs : (req[r].year = k /\ req[r].parses = 1) => req[r].html = h

\* C17: while the upstream page for a year stays the same page, every write
\* for the year stores the records of that page, every provider call that
\* returns (from the cache or from a parse) returns them, and the cache
\* entry holds them, however the calls interleave.
C17_WriteIdempotent ==
    \A k \in Keys, h \in Htmls :
        PageUnchanged(k, h) =>
            /\ \A r \in Reqs :
                  (req[r].year = k /\ (req[r].hit \/ Parsed(r))) =>
                      /\ req[r].data = QualifyingRecords[h]
                      /\ (Done(r) /\ req[r].route = "year") =>
                            req[r].resp.data = QualifyingRecords[h]
            /\ kv[k].present => kv[k].value = QualifyingRecords[h]

\* Two calls for one year both missed, both parsed page A and both wrote,
\* the second write some time after the first; the entry holds the three
\* records of page A once.
C17_Witness ==
    \E r1, r2 \in Reqs :
        /\ r1 # r2 /\ req[r1].year = req[r2].year
        /\ req[r1].writes = 1 /\ req[r2].writes = 1
        /\ req[r1].html = "A" /\ req[r2].html = "A"
        /\ req[r2].wseq > req[r1].wseq /\ req[r2].wroteAt > req[r1].wroteAt
        /\ Len(kv[req[r1].year].value) = 3
        /\ kv[req[r1].year].value = req[r1].data


\* C18: the store changes only in a provider call's write step; whatever
\* step a request takes (hit, miss, failure, write), the entries of all
\* years other than its own stay as they were; and an entry always holds
\* the full record sequence of the page its latest writer parsed, also when
\* that writer served a month or date-prefix query.
C18_CacheFrame ==
    /\ [](\A k \in Keys :
             kv[k].present =>
                /\ LastWriter(k) # 0
                /\ kv[k].value = QualifyingRecords[req[LastWriter(k)].html])
    /\ [][kv' # kv =>
             \E r \in Reqs : /\ req[r].pc = "set"
                             /\ req'[r].writes = req[r].writes + 1]_vars
    /\ [][\A r \in Reqs :
             req'[r] # req[r] =>
                \A k \in Keys \ {req'[r].year} : kv'[k] = kv[k]]_vars
    /\ [][\A r \in Reqs :
             (req'[r] # req[r] /\ (req'[r].hit \/ req'[r].err # "")) => kv' = kv]_vars

\* A month query for one year missed, parsed page A and wrote: it answered
\* two records while the entry holds all three, and the entry another call
\* wrote for another year is still that call's data.
C18_Witness ==
    \E r1, r2 \in Reqs :
        /\ req[r1].writes = 1 /\ req[r2].writes = 1
        /\ req[r1].year # req[r2].year
        /\ req[r1].wseq < req[r2].wseq
        /\ req[r2].route = "bulan" /\ req[r2].html = "A"
        /\ req[r2].resp.total = 2
        /\ Len(kv[req[r2].year].value) = 3
        /\ req[r1].html = "B"
        /\ kv[req[r1].year].value = req[r1].data


\* The runtime resumes every suspended call: an awaited fetch and an awaited
\* kv.set each eventually return or fail, for every request on its own.
FairSpec ==
    /\ Spec
    /\ \A r \in Reqs : WF_vars(ScrapeFetch(r)) /\ WF_vars(ScrapeSetCached(r))

\* Request r has arrived.
Arrived(r) == req[r].pc # "idle"

\* Request r has been answered: a success payload, the 400 rejection of the
\* year, or a 500 failure.
Answered(r) ==
    /\ Done(r)
    /\ req[r].resp # NoResponse
    /\ \/ req[r].resp.status = 200 /\ ~Failed(r)
       \/ req[r].resp = InvalidYearResponse /\ req[r].resp.status = 400
       \/ req[r].resp.status = 500 /\ Failed(r)

\* C19: every request that has arrived is eventually answered with a 200,
\* a 400 or a 500; an answered request stays answered with the same
\* response; and a request waiting on its fetch or its kv.set can always
\* take its next step, whatever the other requests are doing.
C19_EveryRequestAnswered ==
    /\ \A r \in Reqs : Arrived(r) ~> Answered(r)
    /\ [][\A r \in Reqs : Done(r) => req'[r] = req[r]]_vars
    /\ [](\A r \in Reqs :
             /\ Arrived(r) => req[r].pc \in {"fetch", "set", "done"}
             /\ req[r].pc = "fetch" => ENABLED ScrapeFetch(r)
             /\ req[r].pc = "set" => ENABLED ScrapeSetCached(r))

\* Two requests for one year were in flight together, both past the cache
\* miss; one ended in a failure and the other with a success payload.
C19_Witness ==
    \E r1, r2 \in Reqs :
        /\ r1 # r2 /\ req[r1].year = req[r2].year
        /\ ~req[r1].hit /\ ~req[r2].hit
        /\ req[r1].fetches = 1 /\ req[r2].fetches = 1
        /\ Answered(r1) /\ req[r1].resp.status = 500
        /\ Answered(r2) /\ req[r2].resp.status = 200 /\ req[r2].writes = 1

====
